---------------------------- MODULE Spec2Model ----------------------------
(***************************************************************************)
(* A model of wharf's suffix sorter (bsdiff/math.go): split, qsufsort in   *)
(* its sequential and worker-pool modes, matchlen and search; and of the   *)
(* counting reader/writer exercised by counter/count_test.go.              *)
(*                                                                         *)
(* Go slices are modelled as functions over 0..len-1, so every index of    *)
(* the model is the index of the source.  An index out of range is a Go    *)
(* panic: the operators carry an `ok` flag that such an access clears.     *)
(***************************************************************************)
EXTENDS Integers, Sequences, FiniteSets, Bags, TLC

VARIABLES
  obuf,        \* the old buffer, a slice of bytes (0-based)
  concurrency, \* ctx.SuffixSortConcurrency
  pc,          \* the driver's position in qsufsort
  I, V, V2,    \* the index array and the two group-number arrays
  marks,       \* the deferred-mark log
  h, i, n,     \* order of the pass, sweep cursor, combined-sorted accumulator
  tasks,       \* the buffered channel of the pass
  closed,      \* close(tasks) has run
  idle,        \* workers blocked in `for task := range tasks`
  busy,        \* bag of the tasks workers are splitting
  sending,     \* workers blocked in `done <- true`
  joined,      \* `<-done` receives of the driver in this pass
  handed,      \* history: the ranges handed to split in this pass
  Vpass,       \* history: V as the current pass found it
  written,     \* history: how often each slot of V2 was written in this pass
  strayed,     \* history: split read a key through a negative entry of I
  nbuf, pos, mlen, \* search: the query and the returned (pos, n)
  count,       \* counter: the bytes a counting reader or writer has counted
  stream,      \* counter: the wrapped reader or writer, possibly nil
  callback,    \* counter: whether onRead / onWrite is registered
  seen,        \* counter: the values the callback was invoked with
  calls,       \* counter, history: buffer length and result of each call
  compressors, \* pwr: the registry `var compressors map[...]Compressor`
  logged,      \* pwr: the lines RegisterCompressor has logged
  registered,  \* pwr, history: the calls of RegisterCompressor
  wired        \* pwr, history: the last call of CompressWire and its result

sortVars == <<obuf, concurrency, pc, I, V, V2, marks, h, i, n, tasks, closed,
              idle, busy, sending, joined, handed, Vpass, written, strayed,
              nbuf, pos, mlen>>
counterVars == <<count, stream, callback, seen, calls>>
compressVars == <<compressors, logged, registered, wired>>
vars == <<sortVars, counterVars, compressVars>>

-----------------------------------------------------------------------------
(* Bounds of the model *)

\* short buffers: every byte string over Alphabet up to this length
MaxLen == 4
\* queries handed to search: every byte string over Alphabet up to this length
MaxQuery == 2
\* runtime.NumCPU() of the machine the sort runs on
NumCPU == 2
\* positive worker counts 1..MaxWorkers are tried (and 4 and 8 besides)
MaxWorkers == 2
\* by how much the long runs of the long buffers exceed the dispatch threshold
Excess == 1

\* a counting reader or writer is called at most this many times
MaxCalls == 4

(* Program constants *)

\* `if length < 16`: below it split selection-sorts
SelectionSortLimit == 16
\* `if parallel && n > 128`: above it a group is queued for a worker
ParallelThreshold == 128
\* `taskBufferSize := numWorkers * 4`
TaskBufferFactor == 4
\* `var buckets [256]int32`
NumBuckets == 256

\* `buf := make([]byte, 6)`, the buffer of the counter's tests
BufLen == 6

\* RegisterCompressor is called at most this many times
MaxRegistrations == 2
\* the quality settings of a call, and the qualities below which the Apply
\* of a compressor fails (0: it never fails)
Qualities == {1, 9}
FailsBelow == {0, 5}

Alphabet == {0, 1, 255}

-----------------------------------------------------------------------------
(* Generic helpers *)

\* the compression algorithms of the registry's keys; NONE is no compression
CompressionAlgorithm_NONE == "NONE"
Algorithms == {CompressionAlgorithm_NONE, "BROTLI", "GZIP"}
\* the nil Compressor, which is also what the map yields for a missing key
NilCompressor == [name |-> "nil", failsBelow |-> 0]
\* lines 26-29: the registry after init()
NoCompressors == [a \in Algorithms |-> NilCompressor]
\* no call of RegisterCompressor or CompressWire has been made
compressAtRest ==
  /\ compressors = NoCompressors /\ logged = 0
  /\ registered = <<>> /\ wired = [called |-> FALSE]

\* a Go slice literal as a 0-based function
Slice(s) == [q \in 0..(Len(s) - 1) |-> s[q + 1]]
SliceLen(a) == Cardinality(DOMAIN a)
EmptySlice == Slice(<<>>)
\* a[from:]
SliceFrom(a, from) == [q \in 0..(SliceLen(a) - from - 1) |-> a[q + from]]

\* F applied k times to s, stopping early once s.ok is false.  The loops of
\* the source run through this operator: their step is the identity once the
\* loop's condition is false, and k bounds the number of iterations.
RECURSIVE Iterate(_, _, _)
Iterate(F(_), s, k) ==
  IF ~s.ok \/ k <= 0 THEN s
  ELSE IF k = 1 THEN F(s)
  ELSE Iterate(F, Iterate(F, s, k \div 2), k - (k \div 2))

\* I[a], I[b] = I[b], I[a]
swap(arr, a, b) == [arr EXCEPT ![a] = arr[b], ![b] = arr[a]]

panicked(s) == [s EXCEPT !.ok = FALSE]


-----------------------------------------------------------------------------
(* split (math.go 15-139).                                                 *)
(* Its arguments I, V, V2 travel in a record m = [I, V, V2, alias, ok]:    *)
(* alias says that the caller passed the same slice as V and as V2         *)
(* (`split(I, V, V, i, n, h)`, the sequential mode), so that a write to    *)
(* V2 is a write to V and later key reads see it.  A call's record s adds  *)
(* its arguments start, length, h and its locals i, j, k, x, jj, kk.       *)
(* The fields writes and strayed are history: how often each slot of V2    *)
(* was assigned, and whether a key was read through a negative I[p].       *)

\* V[I[p]+h] can be read without a panic
keyOK(m, p, hh) == p \in DOMAIN m.I /\ (m.I[p] + hh) \in DOMAIN m.V
\* the key read without the offset h: V[I[p]]
keyNoOffset(m, p, hh) == m.V[m.I[p]]

\* the sorting key V[I[p]+h]
key(m, p, hh) == m.V[m.I[p] + hh]
\* history of a key read at slot p
keyRead(s, p) == [s EXCEPT !.strayed = s.strayed \/ s.I[p] < 0]

\* V2[I[p]] can be written without a panic
commitOK(m, p) ==
  /\ p \in DOMAIN m.I
  /\ m.I[p] \in DOMAIN (IF m.alias THEN m.V ELSE m.V2)
\* V2[I[p]] = g
commit(m, p, g) ==
  IF m.alias
  THEN [m EXCEPT !.V[m.I[p]] = g, !.writes[m.I[p]] = m.writes[m.I[p]] + 1]
  ELSE [m EXCEPT !.V2[m.I[p]] = g, !.writes[m.I[p]] = m.writes[m.I[p]] + 1]

\* lines 28-39: the two tests of one key kv against the smallest key x
selCompare(s, kv) ==
  IF kv < s.x
  THEN [s EXCEPT !.I = swap(s.I, s.k + s.i, s.k), !.x = kv, !.j = 1, !.i = s.i + 1]
  ELSE IF kv = s.x
  THEN [s EXCEPT !.I = swap(s.I, s.k + s.i, s.k + s.j), !.j = s.j + 1, !.i = s.i + 1]
  ELSE [s EXCEPT !.i = s.i + 1]

\* lines 27-40: one iteration of the scan for the smallest remaining key
selScan(s) ==
  IF ~(s.k + s.i < s.start + s.length) THEN s
  ELSE IF ~keyOK(s, s.k + s.i, s.h) THEN panicked(s)
  ELSE selCompare(keyRead(s, s.k + s.i), key(s, s.k + s.i, s.h))

\* selCommit with the group number one too high: `V2[I[k+i]] = k + j`
selCommitHigh(s) ==
  IF ~(s.i < s.j) THEN s
  ELSE IF ~commitOK(s, s.k + s.i) THEN panicked(s)
  ELSE [commit(s, s.k + s.i, s.k + s.j) EXCEPT !.i = s.i + 1]

\* lines 45-50: one iteration of `V2[I[k+i]] = k + j - 1`
selCommit(s) ==
  IF ~(s.i < s.j) THEN s
  ELSE IF ~commitOK(s, s.k + s.i) THEN panicked(s)
  ELSE [commit(s, s.k + s.i, s.k + s.j - 1) EXCEPT !.i = s.i + 1]

\* lines 22-26
selBegin(s) == [keyRead(s, s.k) EXCEPT !.j = 1, !.x = key(s, s.k, s.h), !.i = 1]
\* selCommitAll started one slot early: `for i = -1; i < j; i++`, the slot
\* before the first one of the range left out
selCommitEarly(s) ==
  Iterate(selCommit, [s EXCEPT !.i = IF s.k > s.start THEN -1 ELSE 0], s.j + 1)

\* lines 45-50
selCommitAll(s) == Iterate(selCommit, [s EXCEPT !.i = 0], s.j)
\* selMark without the test `if j == 1`
selMarkAlways(s) == IF s.ok THEN [s EXCEPT !.I[s.k] = -1] ELSE s

\* selMark on the slot after the run: `I[k+j] = -1`
selMarkNext(s) == IF s.ok /\ s.j = 1 THEN [s EXCEPT !.I[s.k + s.j] = -1] ELSE s

\* lines 51-55
selMark(s) == IF s.ok /\ s.j = 1 THEN [s EXCEPT !.I[s.k] = -1] ELSE s
\* line 20: k += j
selNext(s) == IF s.ok THEN [s EXCEPT !.k = s.k + s.j] ELSE s

\* lines 20-56: one iteration of the outer loop of the selection sort
selPass(s) ==
  IF ~(s.k < s.start + s.length) THEN s
  ELSE IF ~keyOK(s, s.k, s.h) THEN panicked(s)
  ELSE selNext(selMark(selCommitAll(Iterate(selScan, selBegin(s), s.length))))

\* lines 64-73: one iteration of the counting loop
terCount(s) ==
  IF ~(s.i < s.start + s.length) THEN s
  ELSE IF ~keyOK(s, s.i, s.h) THEN panicked(s)
  ELSE [keyRead(s, s.i) EXCEPT
                 !.jj = IF key(s, s.i, s.h) < s.x THEN s.jj + 1 ELSE s.jj,
                 !.kk = IF key(s, s.i, s.h) = s.x THEN s.kk + 1 ELSE s.kk,
                 !.i = s.i + 1]

\* lines 83-98: one iteration of `for i < jj`
terLess(s) ==
  IF ~(s.i < s.jj) THEN s
  ELSE IF ~keyOK(s, s.i, s.h) THEN panicked(s)
  ELSE IF key(s, s.i, s.h) < s.x THEN [keyRead(s, s.i) EXCEPT !.i = s.i + 1]
  ELSE IF key(s, s.i, s.h) = s.x
  THEN IF (s.jj + s.j) \notin DOMAIN s.I THEN panicked(s)
       ELSE [keyRead(s, s.i) EXCEPT !.I = swap(s.I, s.i, s.jj + s.j),
                                    !.j = s.j + 1]
  ELSE IF (s.kk + s.k) \notin DOMAIN s.I THEN panicked(s)
       ELSE [keyRead(s, s.i) EXCEPT !.I = swap(s.I, s.i, s.kk + s.k),
                                    !.k = s.k + 1]

\* lines 102-111: one iteration of `for jj+j < kk`
terEqual(s) ==
  IF ~(s.jj + s.j < s.kk) THEN s
  ELSE IF ~keyOK(s, s.jj + s.j, s.h) THEN panicked(s)
  ELSE IF key(s, s.jj + s.j, s.h) = s.x
  THEN [keyRead(s, s.jj + s.j) EXCEPT !.j = s.j + 1]
  ELSE IF (s.kk + s.k) \notin DOMAIN s.I THEN panicked(s)
  ELSE [keyRead(s, s.jj + s.j) EXCEPT
          !.I = swap(s.I, s.jj + s.j, s.kk + s.k), !.k = s.k + 1]

\* terCommit with the group number one too high: `V2[I[jj+i]] = kk`
terCommitHigh(s) ==
  IF ~(s.i < s.kk - s.jj) THEN s
  ELSE IF ~commitOK(s, s.jj + s.i) THEN panicked(s)
  ELSE [commit(s, s.jj + s.i, s.kk) EXCEPT !.i = s.i + 1]

\* lines 122-128: one iteration of `V2[I[jj+i]] = kk - 1`
terCommit(s) ==
  IF ~(s.i < s.kk - s.jj) THEN s
  ELSE IF ~commitOK(s, s.jj + s.i) THEN panicked(s)
  ELSE [commit(s, s.jj + s.i, s.kk - 1) EXCEPT !.i = s.i + 1]

\* the locals of a call, `var i, j, k, x, jj, kk int32`, next to its arguments
frame(m, st, ln, hh) ==
  [I |-> m.I, V |-> m.V, V2 |-> m.V2, alias |-> m.alias, ok |-> m.ok,
   writes |-> m.writes, strayed |-> m.strayed,
   start |-> st, length |-> ln, h |-> hh,
   i |-> 0, j |-> 0, k |-> 0, x |-> 0, jj |-> 0, kk |-> 0]
\* what a call leaves behind: the slices
memory(s) ==
  [I |-> s.I, V |-> s.V, V2 |-> s.V2, alias |-> s.alias, ok |-> s.ok,
   writes |-> s.writes, strayed |-> s.strayed]
\* the locals of f, the slices as the call that returned m left them
resume(f, m) ==
  [f EXCEPT !.I = m.I, !.V = m.V, !.V2 = m.V2, !.ok = m.ok,
            !.writes = m.writes, !.strayed = m.strayed]

\* lines 61-63: the pivot
terPivot(s) ==
  [keyRead(s, s.start + (s.length \div 2)) EXCEPT
            !.x = key(s, s.start + (s.length \div 2), s.h),
            !.jj = 0, !.kk = 0, !.i = s.start]
\* lines 74-81
terBase(s) ==
  [s EXCEPT !.jj = s.jj + s.start, !.kk = s.kk + s.jj + s.start,
            !.i = s.start, !.j = 0, !.k = 0]

\* lines 60-111: pivot, counts and the two partition walks
terPartition(s) ==
  IF ~keyOK(s, s.start + (s.length \div 2), s.h) THEN panicked(s)
  ELSE Iterate(terEqual,
         Iterate(terLess,
           terBase(Iterate(terCount, terPivot(s), s.length)),
           s.length),
         s.length)

RECURSIVE split(_, _, _, _)

\* lines 117-120: the < bucket
splitLess(s) ==
  IF s.ok /\ s.jj > s.start
  THEN resume(s, split(memory(s), s.start, s.jj - s.start, s.h))
  ELSE s
\* lines 122-128: the = bucket gets its group number
splitEqual(s) == Iterate(terCommit, [s EXCEPT !.i = 0], s.kk - s.jj)
\* lines 129-133
splitMark(s) ==
  IF s.ok /\ s.jj = s.kk - 1
  THEN IF s.jj \in DOMAIN s.I THEN [s EXCEPT !.I[s.jj] = -1] ELSE panicked(s)
  ELSE s
\* lines 135-138: the > bucket
splitGreater(s) ==
  IF s.ok /\ s.start + s.length > s.kk
  THEN split(memory(s), s.kk, s.start + s.length - s.kk, s.h)
  ELSE memory(s)

\* the selection sort of lines 19-58
selectionSort(s) == Iterate(selPass, [s EXCEPT !.k = s.start], s.length)

\* split(I, V, V2, start, length, h)
split(m, st, ln, hh) ==
  IF ~m.ok THEN m
  ELSE IF ln < SelectionSortLimit
  THEN memory(selectionSort(frame(m, st, ln, hh)))
  ELSE splitGreater(splitMark(splitEqual(splitLess(
         terPartition(frame(m, st, ln, hh))))))

-----------------------------------------------------------------------------
(* qsufsort (math.go 294-504): the pieces of the driver as operators on a  *)
(* record d of its slices and locals, its position pc and the history      *)
(* handed: [I, V, V2, marks, h, i, n, pc, handed, ok].                     *)

obuflen == SliceLen(obuf)

\* lines 295-299
parallel == concurrency # 0
numWorkers == IF concurrency < 1 THEN concurrency + NumCPU ELSE concurrency
\* the channel with room for one task more: `numWorkers*4 + 1`
taskBufferSizeLoose == numWorkers * TaskBufferFactor + 1

\* line 352
taskBufferSize == numWorkers * TaskBufferFactor

\* lines 308-315: after the counts, the running sums and the shift by one,
\* buckets[c] is the number of bytes of the buffer smaller than c
bucketStarts(buf) ==
  [c \in 0..(NumBuckets - 1) |-> Cardinality({q \in DOMAIN buf : buf[q] < c})]

\* lines 317-320: one iteration of `buckets[c]++; I[buckets[c]] = i`
place(s) ==
  IF ~(s.i < SliceLen(s.buf)) THEN s
  ELSE IF (s.buckets[s.buf[s.i]] + 1) \notin DOMAIN s.I THEN panicked(s)
  ELSE [s EXCEPT !.buckets[s.buf[s.i]] = @ + 1,
                 !.I[s.buckets[s.buf[s.i]] + 1] = s.i,
                 !.i = s.i + 1]

\* lines 301-320: the suffixes bucket-sorted by their first byte
placeAll(buf) ==
  Iterate(place,
    [buf |-> buf, buckets |-> bucketStarts(buf),
     I |-> [q \in 0..SliceLen(buf) |-> 0], i |-> 0, ok |-> TRUE],
    SliceLen(buf))

\* lines 328-332: the slots of the buckets that hold one byte
singletons(buckets) ==
  {buckets[c] : c \in {cc \in 1..(NumBuckets - 1) : buckets[cc] = buckets[cc - 1] + 1}}

\* lines 322-333, s being the record the placing loop ends with
markBuckets(s) ==
  [I |-> [q \in DOMAIN s.I |->
            IF q = 0 \/ q \in singletons(s.buckets) THEN -1 ELSE s.I[q]],
   V |-> [q \in DOMAIN s.I |->
            IF q < SliceLen(s.buf) THEN s.buckets[s.buf[q]] ELSE 0]]

\* lines 301-333: I and V before the first pass
initArrays(buf) == markBuckets(placeAll(buf))

\* lines 337-346 and 358, a being the arrays
firstPass(a, par) ==
  [I |-> a.I, V |-> a.V, V2 |-> IF par THEN a.V ELSE EmptySlice,
   marks |-> <<>>, h |-> 1, i |-> 0, n |-> 0, pc |-> "loop", handed |-> <<>>,
   written |-> [q \in DOMAIN a.V |-> 0], strayed |-> FALSE, ok |-> TRUE]

\* lines 301-358: the driver's record before the first pass
initDriver(buf, par) == firstPass(initArrays(buf), par)

\* lines 398-407: the sweep is on a combined-sorted group
sweepSkip(d) == [d EXCEPT !.n = d.n - d.I[d.i], !.i = d.i - d.I[d.i]]

\* logMark whose deferred mark is logged for the slot of the group itself
logMarkAtGroup(d, par) ==
  IF d.n = 0 THEN d
  ELSE IF par
  THEN [d EXCEPT !.marks = Append(d.marks, [index |-> d.i, value |-> -d.n])]
  ELSE IF (d.i - d.n) \notin DOMAIN d.I THEN panicked(d)
  ELSE [d EXCEPT !.I[d.i - d.n] = -d.n]

\* logMark that writes the mark at once in parallel mode too
logMarkNow(d, par) ==
  IF d.n = 0 THEN d
  ELSE IF (d.i - d.n) \notin DOMAIN d.I THEN panicked(d)
  ELSE [d EXCEPT !.I[d.i - d.n] = -d.n]

\* lines 409-420: merge the sorted suffixes seen before this group
logMark(d, par) ==
  IF d.n = 0 THEN d
  ELSE IF par
  THEN [d EXCEPT !.marks = Append(d.marks, [index |-> d.i - d.n, value |-> -d.n])]
  ELSE IF (d.i - d.n) \notin DOMAIN d.I THEN panicked(d)
  ELSE [d EXCEPT !.I[d.i - d.n] = -d.n]

\* groupLength one slot too long: n = V[I[i]] + 2 - i
groupLengthLong(d) ==
  IF d.ok /\ d.I[d.i] \in DOMAIN d.V
  THEN [d EXCEPT !.n = d.V[d.I[d.i]] + 2 - d.i]
  ELSE panicked(d)

\* line 424: n = V[I[i]] + 1 - i
groupLength(d) ==
  IF d.ok /\ d.I[d.i] \in DOMAIN d.V
  THEN [d EXCEPT !.n = d.V[d.I[d.i]] + 1 - d.i]
  ELSE panicked(d)

\* the slices as a call of split left them
store(d, m) ==
  [d EXCEPT !.I = m.I, !.V = m.V, !.V2 = m.V2, !.ok = m.ok,
            !.written = m.writes, !.strayed = m.strayed]

\* history: the range [i, i+n) is handed to split
hand(d, inl) ==
  [d EXCEPT !.handed = Append(d.handed, [start |-> d.i, length |-> d.n,
                                         h |-> d.h, inline |-> inl])]

\* the arguments of the inline call: in sequential mode V is passed twice
inlineArgs(d, par) ==
  [I |-> d.I, V |-> d.V, V2 |-> d.V2, alias |-> ~par, ok |-> d.ok,
   writes |-> d.written, strayed |-> d.strayed]

\* lines 439-445: split(I, V, V2, i, n, h) or split(I, V, V, i, n, h)
inlineSplit(d, par) == store(hand(d, TRUE), split(inlineArgs(d, par), d.i, d.n, d.h))

\* advance by one slot less than the group
advanceShort(d) == [d EXCEPT !.i = d.i + d.n - 1, !.n = 0]

\* lines 449-451
advance(d) == [d EXCEPT !.i = d.i + d.n, !.n = 0]

\* line 432: the group goes to the workers
queued(d, par) == d.ok /\ par /\ d.n > ParallelThreshold

\* lines 432-451, d.n being the length of the group: the driver blocks in the
\* send, or splits the group itself and advances
dispatch(d, par) ==
  IF queued(d, par) THEN [d EXCEPT !.pc = "send"]
  ELSE advance(inlineSplit(d, par))

\* lines 409-451: one iteration of the sweep on a group to sort
sweepUnsorted(d, par) == dispatch(groupLength(logMark(d, par)), par)

\* lines 465-468: one deferred mark
applyMark(s) ==
  IF s.k > Len(s.marks) THEN s
  ELSE IF s.marks[s.k].index \notin DOMAIN s.I THEN panicked(s)
  ELSE [s EXCEPT !.I[s.marks[s.k].index] = s.marks[s.k].value, !.k = s.k + 1]

\* the outcome of the loop r taken into the driver's record
storeI(d, r) == [d EXCEPT !.I = r.I, !.ok = r.ok]

\* lines 465-468: `for _, mark := range marks { I[mark.index] = mark.value }`
applyMarks(d) ==
  storeI(d, Iterate(applyMark,
                    [I |-> d.I, marks |-> d.marks, k |-> 1, ok |-> d.ok],
                    Len(d.marks)))

\* tailMark with the run one slot too long: `I[i-n] = -n - 1`
tailMarkLong(d) ==
  IF d.n = 0 THEN d
  ELSE IF (d.i - d.n) \notin DOMAIN d.I THEN panicked(d)
  ELSE [d EXCEPT !.I[d.i - d.n] = -d.n - 1]

\* lines 471-476
tailMark(d) ==
  IF d.n = 0 THEN d
  ELSE IF (d.i - d.n) \notin DOMAIN d.I THEN panicked(d)
  ELSE [d EXCEPT !.I[d.i - d.n] = -d.n]

\* lines 481-489: copy(V, V2)
copyV(d) == [d EXCEPT !.V = d.V2]

\* nextPass with `h++` for `h += h`
nextPassByOne(d) == [d EXCEPT !.h = d.h + 1, !.pc = "loop"]

\* line 358: h += h, and the loop's condition is tested again
nextPass(d) == [d EXCEPT !.h = d.h + d.h, !.pc = "loop"]

\* the last position whose rank is s
lastRanked(d, s) ==
  CHOOSE q \in DOMAIN d.V : d.V[q] = s /\ \A r \in DOMAIN d.V : d.V[r] = s => r <= q

\* invert with the loop `for i := 0; i < obuflen; i++`, one iteration short
invertShort(d) ==
  IF \E q \in (DOMAIN d.V) \ {SliceLen(d.V) - 1} : d.V[q] \notin DOMAIN d.I
  THEN panicked(d)
  ELSE [d EXCEPT !.I = [s \in DOMAIN d.I |->
                          IF \E q \in (DOMAIN d.V) \ {SliceLen(d.V) - 1} : d.V[q] = s
                          THEN CHOOSE q \in (DOMAIN d.V) \ {SliceLen(d.V) - 1} : d.V[q] = s
                          ELSE d.I[s]],
                 !.pc = "returned"]

\* lines 500-503: `I[V[i]] = i` for i = 0..obuflen; a later write wins
invert(d) ==
  IF \E q \in DOMAIN d.V : d.V[q] \notin DOMAIN d.I THEN panicked(d)
  ELSE [d EXCEPT !.I = [s \in DOMAIN d.I |->
                          IF \E q \in DOMAIN d.V : d.V[q] = s
                          THEN lastRanked(d, s) ELSE d.I[s]],
                 !.pc = "returned"]

\* lines 390-453 with concurrency = 0: one iteration, or nothing once i > obuflen
seqSweep(d) ==
  IF d.i \notin DOMAIN d.I THEN d
  ELSE IF d.I[d.i] < 0 THEN sweepSkip(d)
  ELSE sweepUnsorted(d, FALSE)

\* lines 358-490 with concurrency = 0: one pass, or nothing once all is sorted
seqPass(d) ==
  IF d.I[0] = -SliceLen(d.I) THEN d
  ELSE nextPass(tailMark(Iterate(seqSweep, [d EXCEPT !.i = 0, !.n = 0,
                                                   !.handed = <<>>],
                                 SliceLen(d.I))))

\* qsufsort(obuf, ctx, consumer) with ctx.SuffixSortConcurrency = 0, run to
\* its return: the driver is alone and every step is determined
qsufsortSeq(buf) ==
  invert(Iterate(seqPass, initDriver(buf, FALSE), SliceLen(buf) + 1))

-----------------------------------------------------------------------------
(* matchlen and search (math.go 719-756) *)

\* the loop without its test `a[i] == b[i]`: it runs to the shorter length
matchlenBlind(a, b, k) ==
  IF k < SliceLen(a) /\ k < SliceLen(b)
  THEN (IF SliceLen(a) < SliceLen(b) THEN SliceLen(a) ELSE SliceLen(b))
  ELSE k

RECURSIVE matchlenFrom(_, _, _)
\* lines 723-725: the loop, entered with i = k
matchlenFrom(a, b, k) ==
  IF k < SliceLen(a) /\ k < SliceLen(b) /\ a[k] = b[k]
  THEN matchlenFrom(a, b, k + 1)
  ELSE k

\* matchlen(a, b)
matchlen(a, b) == matchlenFrom(a, b, 0)

\* bytes.Compare(a, b): -1, 0 or 1, lexicographically
bytesCompare(a, b) ==
  LET la == SliceLen(a)
      lb == SliceLen(b)
      lo == IF la < lb THEN la ELSE lb
      d  == CHOOSE k \in 0..lo :
              /\ (k = lo \/ a[k] # b[k])
              /\ \A j \in 0..(k - 1) : a[j] = b[j]
  IN  IF d < lo THEN (IF a[d] < b[d] THEN -1 ELSE 1)
      ELSE IF la < lb THEN -1 ELSE IF la > lb THEN 1 ELSE 0

\* obuf[I[x]:] can be taken without a panic
suffixOK(sa, old, x) == x \in DOMAIN sa /\ sa[x] \in 0..SliceLen(old)

\* `if x > y { return I[st], x }` taken on a tie as well
longerTieStart(sa, x, y, st, en) ==
  IF x >= y THEN [pos |-> sa[st], n |-> x, ok |-> TRUE]
  ELSE [pos |-> sa[en], n |-> y, ok |-> TRUE]

\* the comparison of lines 745-748 reversed: the end with the shorter match
shorterMatch(sa, x, y, st, en) ==
  IF x < y THEN [pos |-> sa[st], n |-> x, ok |-> TRUE]
  ELSE [pos |-> sa[en], n |-> y, ok |-> TRUE]

\* lines 745-748: the end with the longer match; en wins a tie
longer(sa, x, y, st, en) ==
  IF x > y THEN [pos |-> sa[st], n |-> x, ok |-> TRUE]
  ELSE [pos |-> sa[en], n |-> y, ok |-> TRUE]

\* the search failed with an index out of range
searchPanic == [pos |-> 0, n |-> 0, ok |-> FALSE]

\* search(I, obuf, nbuf, st, en)
RECURSIVE search(_, _, _, _, _)
search(sa, old, new, st, en) ==
  IF en - st < 2
  THEN IF ~(suffixOK(sa, old, st) /\ suffixOK(sa, old, en)) THEN searchPanic
       ELSE longer(sa, matchlen(SliceFrom(old, sa[st]), new),
                       matchlen(SliceFrom(old, sa[en]), new), st, en)
  ELSE IF ~suffixOK(sa, old, st + ((en - st) \div 2)) THEN searchPanic
  ELSE IF bytesCompare(SliceFrom(old, sa[st + ((en - st) \div 2)]), new) < 0
  THEN search(sa, old, new, st + ((en - st) \div 2), en)
  ELSE search(sa, old, new, st, st + ((en - st) \div 2))

-----------------------------------------------------------------------------
(* The inputs *)

\* every byte string over Alphabet of length 0..k
RECURSIVE Strings(_)
Strings(k) ==
  IF k = 0 THEN {<<>>}
  ELSE LET shorter == Strings(k - 1)
       IN  shorter \cup {Append(s, c) : s \in {t \in shorter : Len(t) = k - 1},
                                        c \in Alphabet}

\* c repeated k times
Run(c, k) == [q \in 1..k |-> c]
\* pat repeated up to length k
Periodic(pat, k) == [q \in 1..k |-> pat[((q - 1) % Len(pat)) + 1]]

\* the shortest run of one byte whose group is queued for a worker
Big == ParallelThreshold + Excess

\* buffers whose groups exceed ParallelThreshold, so that workers get tasks,
\* and SelectionSortLimit, so that split partitions
LongBuffers ==
  { Run(1, Big),
    Run(0, Big) \o Run(255, Big + 1),
    Periodic(<<0, 1>>, 2 * Big) }

Buffers == {Slice(s) : s \in Strings(MaxLen) \cup LongBuffers}

\* a buffer whose pass of order 2 finds five groups longer than
\* ParallelThreshold, one more than the channel of one worker buffers
QueueFiller == Periodic(<<0, 0, 1, 1, 255>>, 5 * Big + 1)

Queries == {Slice(s) : s \in Strings(MaxQuery)}

\* the settings of ctx.SuffixSortConcurrency: sequential, 1..MaxWorkers, the
\* worker counts 4 and 8, and the negative ones down to one below -NumCPU
Concurrency == (-(NumCPU + 1) .. MaxWorkers) \cup {4, 8}

-----------------------------------------------------------------------------
(* The state machine of one call of qsufsort, followed by one search *)

\* the driver's slices, locals and position
D == [I |-> I, V |-> V, V2 |-> V2, marks |-> marks, h |-> h, i |-> i, n |-> n,
      pc |-> pc, handed |-> handed, written |-> written, strayed |-> strayed,
      ok |-> TRUE]

\* the driver's step ends in d; a Go panic ends the program
update(d) ==
  /\ I' = d.I /\ V' = d.V /\ V2' = d.V2 /\ marks' = d.marks
  /\ h' = d.h /\ i' = d.i /\ n' = d.n /\ handed' = d.handed
  /\ written' = d.written /\ strayed' = d.strayed
  /\ pc' = IF d.ok THEN d.pc ELSE "panic"

\* no counting reader or writer is in use
counterAtRest ==
  /\ count = 0 /\ stream = [kind |-> "none"] /\ callback = FALSE
  /\ seen = <<>> /\ calls = <<>>

\* the slices, locals and workers of qsufsort before it is called
sortAtRest ==
  /\ I = EmptySlice /\ V = EmptySlice /\ V2 = EmptySlice
  /\ marks = <<>>
  /\ h = 0 /\ i = 0 /\ n = 0
  /\ tasks = <<>> /\ closed = FALSE
  /\ idle = 0 /\ busy = EmptyBag /\ sending = 0 /\ joined = 0
  /\ handed = <<>> /\ Vpass = EmptySlice /\ written = EmptySlice
  /\ strayed = FALSE
  /\ pos = 0 /\ mlen = 0

Init ==
  /\ \/ obuf \in Buffers /\ concurrency \in Concurrency
     \/ obuf = Slice(QueueFiller) /\ concurrency = 1
  /\ pc = "start"
  /\ sortAtRest
  /\ nbuf = EmptySlice
  /\ counterAtRest
  /\ compressAtRest

\* lines 295-356: the arrays after the bucket sort
qsufsortStart ==
  /\ pc = "start"
  /\ update(initDriver(obuf, parallel))
  /\ UNCHANGED <<obuf, concurrency, tasks, closed, idle, busy, sending, joined,
                 nbuf, pos, mlen,
                 Vpass, counterVars, compressVars>>

\* line 358: the loop's condition fails, all suffixes are sorted
passesDone ==
  /\ pc = "loop"
  /\ I[0] = -(obuflen + 1)
  /\ pc' = "invert"
  /\ UNCHANGED <<obuf, concurrency, I, V, V2, marks, h, i, n, tasks, closed,
                 idle, busy, sending, joined, handed, nbuf, pos, mlen,
                 Vpass, written, strayed, counterVars, compressVars>>

\* line 360: make(chan sortTask, taskBufferSize) panics on a negative size
makeTasksPanics ==
  /\ pc = "loop"
  /\ I[0] # -(obuflen + 1)
  /\ taskBufferSize < 0
  /\ pc' = "panic"
  /\ UNCHANGED <<obuf, concurrency, I, V, V2, marks, h, i, n, tasks, closed,
                 idle, busy, sending, joined, handed, nbuf, pos, mlen,
                 Vpass, written, strayed, counterVars, compressVars>>

\* how many workers a pass spawns: `for i := 0; i < numWorkers; i++`
spawned == IF parallel THEN numWorkers ELSE 0

\* lines 358-390: a pass begins; in parallel mode its workers are spawned
passBegin ==
  /\ pc = "loop"
  /\ I[0] # -(obuflen + 1)
  /\ taskBufferSize >= 0
  /\ tasks' = <<>>
  /\ closed' = FALSE
  /\ idle' = idle + spawned
  /\ marks' = <<>>
  /\ n' = 0 /\ i' = 0
  /\ joined' = 0
  /\ handed' = <<>>
  /\ Vpass' = V
  /\ written' = [q \in DOMAIN V |-> 0]
  /\ pc' = "sweep"
  /\ UNCHANGED <<obuf, concurrency, I, V, V2, h, busy, sending, nbuf, pos, mlen,
                 strayed, counterVars, compressVars>>

\* lines 398-407: the sweep skips a combined-sorted group
sweepSorted ==
  /\ pc = "sweep"
  /\ i < obuflen + 1
  /\ I[i] < 0
  /\ update(sweepSkip(D))
  /\ UNCHANGED <<obuf, concurrency, tasks, closed, idle, busy, sending, joined,
                 nbuf, pos, mlen,
                 Vpass, counterVars, compressVars>>

\* lines 409-451: the sweep is on a group to sort.  A group longer than
\* ParallelThreshold goes to the workers (the send is sendTask), any other one
\* is split by the driver
sweepGroup ==
  /\ pc = "sweep"
  /\ i < obuflen + 1
  /\ I[i] >= 0
  /\ update(sweepUnsorted(D, parallel))
  /\ UNCHANGED <<obuf, concurrency, tasks, closed, idle, busy, sending, joined,
                 nbuf, pos, mlen,
                 Vpass, counterVars, compressVars>>

\* lines 433-437 and 449-451: `tasks <- sortTask{...}` once the channel's
\* buffer has room, then the sweep advances over the group
sendTask ==
  /\ pc = "send"
  /\ Len(tasks) < taskBufferSize
  /\ tasks' = Append(tasks, [start |-> i, length |-> n, h |-> h])
  /\ update([advance(hand(D, FALSE)) EXCEPT !.pc = "sweep"])
  /\ UNCHANGED <<obuf, concurrency, closed, idle, busy, sending, joined,
                 nbuf, pos, mlen,
                 Vpass, counterVars, compressVars>>

\* line 366: a worker receives a task
workerTake ==
  /\ idle > 0
  /\ tasks # <<>>
  /\ tasks' = Tail(tasks)
  /\ busy' = busy (+) SetToBag({Head(tasks)})
  /\ idle' = idle - 1
  /\ UNCHANGED <<obuf, concurrency, pc, I, V, V2, marks, h, i, n, closed,
                 sending, joined, handed, nbuf, pos, mlen,
                 Vpass, written, strayed, counterVars, compressVars>>

\* a worker's call with V passed twice: split(I, V, V, ...)
workerArgsAliased ==
  [I |-> I, V |-> V, V2 |-> V2, alias |-> TRUE, ok |-> TRUE,
   writes |-> written, strayed |-> strayed]

\* the arguments of a worker's call
workerArgs ==
  [I |-> I, V |-> V, V2 |-> V2, alias |-> FALSE, ok |-> TRUE,
   writes |-> written, strayed |-> strayed]

\* line 368: split(I, V, V2, task.start, task.length, task.h)
workerSplit ==
  /\ pc # "panic"
  /\ \E task \in BagToSet(busy) :
       /\ update(store(D, split(workerArgs, task.start, task.length, task.h)))
       /\ busy' = busy (-) SetToBag({task})
  /\ idle' = idle + 1
  /\ UNCHANGED <<obuf, concurrency, tasks, closed, sending, joined,
                 nbuf, pos, mlen,
                 Vpass, counterVars, compressVars>>

\* lines 366 and 370: the channel is closed and empty, the worker leaves its
\* loop and blocks in `done <- true`
workerExit ==
  /\ idle > 0
  /\ closed
  /\ tasks = <<>>
  /\ idle' = idle - 1
  /\ sending' = sending + 1
  /\ UNCHANGED <<obuf, concurrency, pc, I, V, V2, marks, h, i, n, tasks, closed,
                 busy, joined, handed, nbuf, pos, mlen,
                 Vpass, written, strayed, counterVars, compressVars>>

\* line 458: close(tasks)
closeTasks ==
  /\ pc = "sweep"
  /\ ~(i < obuflen + 1)
  /\ parallel
  /\ closed' = TRUE
  /\ pc' = "join"
  /\ UNCHANGED <<obuf, concurrency, I, V, V2, marks, h, i, n, tasks, idle, busy,
                 sending, joined, handed, nbuf, pos, mlen,
                 Vpass, written, strayed, counterVars, compressVars>>

\* the join loop one receive short: `for i := 1; i < numWorkers; i++`
joinCountShort == numWorkers - 1

\* how many times the driver receives on done: `for i := 0; i < numWorkers; i++`
joinCount == numWorkers

\* lines 459-462: `<-done` meets a worker's `done <- true`
recvDone ==
  /\ pc = "join"
  /\ joined < joinCount
  /\ sending > 0
  /\ sending' = sending - 1
  /\ joined' = joined + 1
  /\ UNCHANGED <<obuf, concurrency, pc, I, V, V2, marks, h, i, n, tasks, closed,
                 idle, busy, handed, nbuf, pos, mlen,
                 Vpass, written, strayed, counterVars, compressVars>>

\* lines 465-468: all workers are joined, the deferred marks are applied
marksApplied ==
  /\ pc = "join"
  /\ ~(joined < joinCount)
  /\ update([applyMarks(D) EXCEPT !.pc = "tail"])
  /\ UNCHANGED <<obuf, concurrency, tasks, closed, idle, busy, sending, joined,
                 nbuf, pos, mlen,
                 Vpass, counterVars, compressVars>>

\* lines 471-476, and `h += h` as no copy follows
tailSequential ==
  /\ pc = "sweep"
  /\ ~(i < obuflen + 1)
  /\ ~parallel
  /\ update(nextPass(tailMark(D)))
  /\ UNCHANGED <<obuf, concurrency, tasks, closed, idle, busy, sending, joined,
                 nbuf, pos, mlen,
                 Vpass, counterVars, compressVars>>

\* lines 471-476 in parallel mode
tailParallel ==
  /\ pc = "tail"
  /\ update([tailMark(D) EXCEPT !.pc = "copy"])
  /\ UNCHANGED <<obuf, concurrency, tasks, closed, idle, busy, sending, joined,
                 nbuf, pos, mlen,
                 Vpass, counterVars, compressVars>>

\* lines 481-489 and `h += h`
copyPass ==
  /\ pc = "copy"
  /\ update(nextPass(copyV(D)))
  /\ UNCHANGED <<obuf, concurrency, tasks, closed, idle, busy, sending, joined,
                 nbuf, pos, mlen,
                 Vpass, counterVars, compressVars>>

\* lines 500-503: the ranks are inverted into I, which is returned
qsufsortReturn ==
  /\ pc = "invert"
  /\ update(invert(D))
  /\ UNCHANGED <<obuf, concurrency, tasks, closed, idle, busy, sending, joined,
                 nbuf, pos, mlen,
                 Vpass, counterVars, compressVars>>

\* the outcome r of the search is kept
found(r, q) ==
  /\ nbuf' = q
  /\ pos' = r.pos
  /\ mlen' = r.n
  /\ pc' = IF r.ok THEN "searched" ELSE "panic"

\* search(I, obuf, nbuf, 0, obuflen) on the returned array
searchCall ==
  /\ pc = "returned"
  /\ \E q \in Queries : found(search(I, obuf, q, 0, obuflen), q)
  /\ UNCHANGED <<obuf, concurrency, I, V, V2, marks, h, i, n, tasks, closed,
                 idle, busy, sending, joined, handed,
                 Vpass, written, strayed, counterVars, compressVars>>

Next ==
  \/ qsufsortStart \/ passesDone \/ makeTasksPanics \/ passBegin
  \/ sweepSorted \/ sweepGroup \/ sendTask
  \/ workerTake \/ workerSplit \/ workerExit
  \/ closeTasks \/ recvDone \/ marksApplied
  \/ tailSequential \/ tailParallel \/ copyPass
  \/ qsufsortReturn \/ searchCall

Spec == Init /\ [][Next]_vars

-----------------------------------------------------------------------------
(* matchlen on its own: one call matchlen(obuf, nbuf) on any two slices *)

\* the slices matchlen is called with
Slices(k) == {Slice(s) : s \in Strings(k)}

MatchlenInit ==
  /\ obuf \in Slices(MaxLen)
  /\ nbuf \in Slices(MaxQuery + 1)
  /\ concurrency = 0
  /\ pc = "matchlen"
  /\ sortAtRest
  /\ counterAtRest
  /\ compressAtRest

\* mlen = matchlen(obuf, nbuf)
matchlenCall ==
  /\ pc = "matchlen"
  /\ mlen' = matchlen(obuf, nbuf)
  /\ pc' = "matched"
  /\ UNCHANGED <<obuf, concurrency, I, V, V2, marks, h, i, n, tasks, closed,
                 idle, busy, sending, joined, handed, nbuf, pos, Vpass, written, strayed, counterVars, compressVars>>

MatchlenNext == matchlenCall

SpecMatchlen == MatchlenInit /\ [][MatchlenNext]_vars

-----------------------------------------------------------------------------
(* The counting reader and writer (package counter).  Its source is not in *)
(* the files at hand; the model follows the behaviour its tests pin down:  *)
(* a call passes the buffer to the wrapped stream, or reports the whole    *)
(* buffer when the stream is nil, adds the bytes transferred to the count  *)
(* and hands the count to the callback.                                    *)

\* the lengths of the buffers handed to Read and Write
BufferLens == {0, 1, BufLen}

\* the wrapped stream: a reader with some bytes left, a writer that takes
\* every byte, or nil
Streams ==
  [kind : {"reader"}, nil : {FALSE}, left : {0, BufLen, 2 * BufLen + 1}]
    \cup [kind : {"reader", "writer"}, nil : {TRUE}, left : {0}]
    \cup [kind : {"writer"}, nil : {FALSE}, left : {0}]

\* Read of the wrapped reader: what is left, up to the buffer; EOF at the end
wrappedRead(s, len) ==
  IF s.left = 0 /\ len > 0 THEN [n |-> 0, err |-> "EOF"]
  ELSE [n |-> IF len < s.left THEN len ELSE s.left, err |-> "nil"]

\* what a call reports for a buffer of len bytes: (n, err)
transfer(s, len) ==
  IF s.nil \/ s.kind = "writer" THEN [n |-> len, err |-> "nil"]
  ELSE wrappedRead(s, len)

\* the count with the buffer's length added instead of the bytes transferred
countedLen(c, r, len) == c + len

\* the count after a call that reported r
counted(c, r, len) == c + r.n

\* the call is recorded, counted and reported to the callback
account(r, len) ==
  /\ count' = counted(count, r, len)
  /\ seen' = IF callback THEN Append(seen, counted(count, r, len)) ELSE seen
  /\ calls' = Append(calls, [len |-> len, n |-> r.n, err |-> r.err])
  /\ stream' = [stream EXCEPT !.left = @ - (IF stream.nil THEN 0 ELSE r.n)]

CounterInit ==
  /\ pc = "counter"
  /\ obuf = EmptySlice /\ nbuf = EmptySlice
  /\ concurrency = 0
  /\ sortAtRest
  /\ count = 0
  /\ stream \in Streams
  /\ callback \in BOOLEAN
  /\ seen = <<>>
  /\ calls = <<>>
  /\ compressAtRest

\* (*Reader).Read(buffer)
counterRead ==
  /\ pc = "counter"
  /\ stream.kind = "reader"
  /\ Len(calls) < MaxCalls
  /\ \E len \in BufferLens : account(transfer(stream, len), len)
  /\ UNCHANGED <<sortVars, callback, compressVars>>

\* (*Writer).Write(buffer)
counterWrite ==
  /\ pc = "counter"
  /\ stream.kind = "writer"
  /\ Len(calls) < MaxCalls
  /\ \E len \in BufferLens : account(transfer(stream, len), len)
  /\ UNCHANGED <<sortVars, callback, compressVars>>

\* Count()
Count == count

CounterNext == counterRead \/ counterWrite

SpecCounter == CounterInit /\ [][CounterNext]_vars

-----------------------------------------------------------------------------
(* What qsufsort returns *)

\* qsufsort has returned its array, and nothing else has run since
Returned == pc = "returned"

\* obuf[p:], the suffix at n being the empty string
suffix(p) == SliceFrom(obuf, p)

\* every value of 0..obuflen occurs in arr, which has obuflen + 1 slots
IsPermutation(arr) ==
  /\ DOMAIN arr = 0..obuflen
  /\ \A v \in 0..obuflen : \E q \in DOMAIN arr : arr[q] = v

\* C1: for every buffer and every concurrency setting, the array qsufsort
\* returns is in suffix order: the empty suffix comes first (I[0] = n) and
\* each suffix is lexicographically <= the next one.
C1_SuffixOrder ==
  Returned =>
    /\ DOMAIN I = 0..obuflen
    /\ I[0] = obuflen
    /\ \A k \in 0..(obuflen - 1) :
         /\ I[k] \in 0..obuflen
         /\ I[k + 1] \in 0..obuflen
         /\ bytesCompare(suffix(I[k]), suffix(I[k + 1])) <= 0

\* C1's case: a buffer of repeated bytes, long enough for the workers, sorted
C1_Witness ==
  /\ Returned
  /\ concurrency = 2
  /\ obuflen > ParallelThreshold
  /\ \E p \in DOMAIN obuf : \E q \in DOMAIN obuf : p # q /\ obuf[p] = obuf[q]

\* C2: for every buffer (the empty one included) and every concurrency
\* setting, the returned array has n + 1 slots and is a permutation of 0..n:
\* every value occurs exactly once and no negative marker is left.
C2_Permutation ==
  Returned =>
    /\ IsPermutation(I)
    /\ \A p \in DOMAIN I : \A q \in DOMAIN I : I[p] = I[q] => p = q
    /\ \A q \in DOMAIN I : I[q] >= 0

\* C2's case: a buffer whose first pass left negative markers in I
C2_Witness ==
  /\ Returned
  /\ obuflen >= 2
  /\ h > 1
  /\ \E q \in DOMAIN obuf : obuf[q] # obuf[0]

\* C3: for every buffer, every worker count and every interleaving of the
\* workers, the returned array is the one the sequential sort returns.
C3_SeqParEquivalence ==
  Returned => I = qsufsortSeq(obuf).I

\* C3's case: a sort whose workers were given tasks has returned
C3_Witness ==
  /\ Returned
  /\ concurrency \in {1, 2, 4, 8}
  /\ obuf = Slice(Run(0, Big) \o Run(255, Big + 1))

-----------------------------------------------------------------------------
(* Totality *)

\* the sort has run to its return
Done == pc \in {"returned", "searched"}

\* no worker of the pass is left that could receive a task or signal done
NoWorker == idle = 0 /\ busy = EmptyBag /\ sending = 0

\* the driver is in `tasks <- sortTask{...}`, the channel's buffer is full and
\* no worker will ever receive
SendBlocked == pc = "send" /\ Len(tasks) >= taskBufferSize /\ NoWorker

\* the driver is in `<-done` and no worker will ever send
RecvBlocked == pc = "join" /\ joined < joinCount /\ tasks = <<>> /\ NoWorker

\* C4: for every buffer and every concurrency setting, negative ones
\* included, qsufsort returns: it never panics, and the driver is never
\* blocked forever in a send to the task queue or in a receive on done.
C4_Total == pc # "panic" /\ ~SendBlocked /\ ~RecvBlocked

-----------------------------------------------------------------------------
(* What search returns *)

\* the smaller of two numbers
min(x, y) == IF x < y THEN x ELSE y

\* search(I, obuf, nbuf, 0, obuflen) has returned (pos, mlen)
Searched == pc = "searched"

\* C5 as stated: for every old buffer, the empty one included, search returns
\* a position in 0..n-1 and a length in 0..min(n, len(nbuf)).
C5_PositionInBuffer ==
  Searched =>
    /\ 0 <= pos /\ pos <= obuflen - 1
    /\ 0 <= mlen /\ mlen <= min(obuflen, SliceLen(nbuf))

\* C5 amended: the length is in 0..min(n, len(nbuf)); for a buffer that is
\* not empty the position is in 0..n-1, never the sentinel n; for the empty
\* buffer search returns (0, 0).
C5_PositionOrEmpty ==
  Searched =>
    /\ 0 <= mlen /\ mlen <= min(obuflen, SliceLen(nbuf))
    /\ obuflen >= 1 => (0 <= pos /\ pos <= obuflen - 1)
    /\ obuflen = 0 => (pos = 0 /\ mlen = 0)

\* C5's case: a query no byte of which is in the buffer, so that the search
\* narrows to the sentinel slot and its neighbour
C5_Witness ==
  /\ Searched
  /\ obuflen >= 2
  /\ SliceLen(nbuf) >= 1
  /\ mlen = 0
  /\ \A q \in DOMAIN obuf : obuf[q] > nbuf[0]

-----------------------------------------------------------------------------
(* The parallel pass *)

\* the workers of the pass are spawned and not all of them are joined
InPass == pc \in {"sweep", "send", "join"}

\* some range of the pass went through the task queue
SomeQueued == \E x \in DOMAIN handed : ~handed[x].inline

\* C8: in parallel mode no step of a worker and no inline split of the
\* driver changes V between the spawning of a pass's workers and their join;
\* V changes only in the end-of-pass copy, and then it becomes V2.
C8_VReadOnly ==
  [][(parallel /\ pc # "start") =>
       IF pc = "copy" THEN V' = V2 ELSE V' = V]_sortVars

\* C8's case: within a parallel pass a worker has split its task and the
\* new group numbers are in V2 only
C8_Witness ==
  /\ parallel
  /\ InPass
  /\ SomeQueued
  /\ tasks = <<>> /\ busy = EmptyBag
  /\ V2 # V

\* the slots of the range e
slots(e) == e.start..(e.start + e.length - 1)

\* C9: within one pass, each range handed to split, queued or inline, lies
\* inside 0..n, holds no negative slot when it is handed over, and is disjoint
\* from every range handed over before it in the pass.
C9_DisjointRanges ==
  [][(handed' # handed /\ handed' # <<>>) =>
       /\ handed'[Len(handed')].length >= 1
       /\ slots(handed'[Len(handed')]) \subseteq 0..obuflen
       /\ \A q \in slots(handed'[Len(handed')]) : I[q] >= 0
       /\ \A x \in DOMAIN handed :
            slots(handed[x]) \cap slots(handed'[Len(handed')]) = {}]_sortVars

\* C9's case: a parallel pass in which a range was queued and another handed
\* over after it, while a worker is splitting
C9_Witness ==
  /\ parallel
  /\ Len(handed) >= 2
  /\ ~handed[1].inline
  /\ busy # EmptyBag

\* the tasks that are queued or being split
pending == {tasks[x] : x \in DOMAIN tasks} \cup BagToSet(busy)

\* C10: in parallel mode the deferred marks are applied, V2 is copied and the
\* next pass begins only when the task queue is closed and empty and every
\* worker of the pass has signalled done; a task queued or running is of the
\* current order h.
C10_Barrier ==
  parallel =>
    /\ pc \in {"tail", "copy"} =>
         closed /\ tasks = <<>> /\ NoWorker /\ joined = numWorkers
    /\ pc \in {"loop", "invert", "returned", "searched"} =>
         tasks = <<>> /\ NoWorker
    /\ \A t \in pending : t.h = h

\* C10's case: a pass whose workers split queued tasks is past its join
C10_Witness ==
  /\ parallel
  /\ numWorkers >= 2
  /\ pc = "copy"
  /\ SomeQueued

-----------------------------------------------------------------------------
(* What matchlen returns *)

\* a[0..k) == b[0..k), and k is a length, a length or a mismatch ends it
MatchLaw(a, b, k) ==
  /\ k <= SliceLen(a) /\ k <= SliceLen(b)
  /\ \A j \in 0..(k - 1) : a[j] = b[j]
  /\ k = SliceLen(a) \/ k = SliceLen(b) \/ a[k] # b[k]

\* C6: matchlen(a, b) = k if and only if a and b agree on their first k
\* bytes and k is len(a), or len(b), or the place of a mismatch.
C6_MatchLaw ==
  pc = "matched" =>
    \A k \in 0..(SliceLen(obuf) + SliceLen(nbuf) + 1) :
      (mlen = k) <=> MatchLaw(obuf, nbuf, k)

\* C6's case: the two slices agree on some bytes and then differ
C6_Witness ==
  /\ pc = "matched"
  /\ mlen >= 1
  /\ mlen < SliceLen(obuf) /\ mlen < SliceLen(nbuf)

-----------------------------------------------------------------------------
(* What the counters count *)

\* the bytes transferred by the first k calls
RECURSIVE Transferred(_)
Transferred(k) == IF k = 0 THEN 0 ELSE Transferred(k - 1) + calls[k].n

\* C7: after any sequence of Read or Write calls Count() is the number of
\* bytes all calls transferred; a registered callback has been invoked after
\* every call with the running total; and with a nil reader or writer every
\* call reported its whole buffer and no error.
C7_CountIsTotal ==
  pc = "counter" =>
    /\ Count = Transferred(Len(calls))
    /\ callback =>
         /\ Len(seen) = Len(calls)
         /\ \A k \in DOMAIN seen : seen[k] = Transferred(k)
    /\ stream.nil =>
         \A k \in DOMAIN calls : calls[k].n = calls[k].len /\ calls[k].err = "nil"

\* C7's case: three reads of BufLen bytes from a nil reader with a callback
C7_Witness ==
  /\ pc = "counter"
  /\ stream.kind = "reader" /\ stream.nil
  /\ callback
  /\ seen = <<BufLen, 2 * BufLen, 3 * BufLen>>
  /\ Count = 3 * BufLen

-----------------------------------------------------------------------------
(* The deferred marks *)

\* arr with every mark of the log written to its slot
withMarks(arr, log) ==
  [q \in DOMAIN arr |->
     IF \E x \in DOMAIN log : log[x].index = q
     THEN log[CHOOSE x \in DOMAIN log : log[x].index = q].value
     ELSE arr[q]]

\* C11: in parallel mode, between the spawning and the join of the workers a
\* step of the driver changes I only inside the range it splits inline in that
\* step, never to write a run-length mark, and the log only grows; the step
\* that ends the join finds no task queued or running, no worker left, and
\* writes every logged mark, each to a slot of its own; the step that begins a
\* pass empties the log.
C11_DeferredMarks ==
  [][parallel =>
       /\ (InPass /\ pc' \in {"sweep", "send", "join"}) =>
            /\ marks' = marks \/ (Len(marks') = Len(marks) + 1 /\
                                  SubSeq(marks', 1, Len(marks)) = marks)
            /\ busy' = busy =>
                 \A q \in DOMAIN I :
                   I'[q] # I[q] =>
                     /\ Len(handed') = Len(handed) + 1
                     /\ handed'[Len(handed')].inline
                     /\ q \in slots(handed'[Len(handed')])
       /\ (pc = "join" /\ pc' = "tail") =>
            /\ pending = {} /\ NoWorker
            /\ \A x \in DOMAIN marks : \A y \in DOMAIN marks :
                 marks[x].index = marks[y].index => x = y
            /\ I' = withMarks(I, marks)
       /\ (pc = "loop" /\ pc' = "sweep") => marks' = <<>>]_vars

\* C11's case: a pass in which tasks were queued and marks logged is past its
\* join, and the marks are in I
C11_Witness ==
  /\ parallel
  /\ pc = "tail"
  /\ SomeQueued
  /\ Len(marks) >= 1
  /\ \E x \in DOMAIN marks : marks[x].value < -1
  /\ I = withMarks(I, marks)

\* the slot the sweep's next mark would be written to: the start of the run
\* of sorted suffixes it is accumulating
markSlot == i - n

-----------------------------------------------------------------------------
(* The contract of split, for the calls that do not pass V as V2 *)

\* the suffixes the slots st..st+ln-1 of arr hold
held(arr, st, ln) == {arr[q] : q \in st..(st + ln - 1)}

\* among the suffixes S keyed by vv[p+hh], the first and the last slot of the
\* run of p's key when the range starts at st
runStart(S, vv, st, hh, p) ==
  st + Cardinality({r \in S : vv[r + hh] < vv[p + hh]})
runEnd(S, vv, st, hh, p) ==
  st + Cardinality({r \in S : vv[r + hh] <= vv[p + hh]}) - 1

\* slot q holds the suffix p after the call: p's run has more than one
\* suffix and q lies in it, first being the first slot of the run
inRun(q, first, last) == first <= q /\ q <= last /\ first < last

\* the call split(I, V, V2, st, ln, hh) of this step met its contract, S
\* being the suffixes of the range before it: every suffix has V2 set to the
\* last slot of its run; a slot of a run of one is -1; any other slot holds a
\* suffix of S whose run it lies in, and no suffix twice
splitReturned(S, st, ln, hh) ==
  /\ \A p \in S : V2'[p] = runEnd(S, V, st, hh, p)
  /\ \A q \in st..(st + ln - 1) :
       IF I'[q] = -1
       THEN \E p \in S : V2'[p] = q /\ runStart(S, V, st, hh, p) = q
       ELSE /\ I'[q] \in S
            /\ inRun(q, runStart(S, V, st, hh, I'[q]), V2'[I'[q]])
  /\ Cardinality({I'[q] : q \in {r \in st..(st + ln - 1) : I'[r] >= 0}})
       = Cardinality({r \in st..(st + ln - 1) : I'[r] >= 0})

\* the contract for the range e
splitContract(e) == splitReturned(held(I, e.start, e.length), e.start, e.length, e.h)

\* C13: every call of split that does not pass V as V2 (the calls of the
\* workers and the inline calls of parallel mode, short ranges and long ones)
\* returns with the range ordered by the key V[p+h], equal keys contiguous,
\* V2 of every suffix the last slot of its run, the slot of a run of one set
\* to -1, and otherwise the same suffixes in the range as before.
C13_SplitContract ==
  [][parallel =>
       /\ (Len(handed') = Len(handed) + 1 /\ handed'[Len(handed')].inline) =>
            splitContract(handed'[Len(handed')])
       /\ \A t \in BagToSet(busy) :
            (busy' = busy (-) SetToBag({t}) /\ idle' = idle + 1) =>
              splitContract(t)]_vars

\* C13's case: a worker has partitioned a range of SelectionSortLimit slots or
\* more that now holds a marked run of one and a longer run
C13_Witness ==
  /\ parallel
  /\ InPass
  /\ busy = EmptyBag /\ tasks = <<>>
  /\ \E x \in DOMAIN handed :
       /\ ~handed[x].inline
       /\ handed[x].length >= SelectionSortLimit
       /\ \E q \in slots(handed[x]) : I[q] = -1
       /\ \E q \in slots(handed[x]) : I[q] >= 0 /\ V2[I[q]] > q

-----------------------------------------------------------------------------
(* What search finds *)

\* C14: for a buffer of one byte or more, its suffix array and every query,
\* the length search returns is matchlen of the suffix at the returned
\* position with the query, and no position of the buffer matches the query
\* on more bytes.
C14_LongestMatch ==
  (Searched /\ obuflen >= 1) =>
    /\ pos \in 0..(obuflen - 1)
    /\ mlen = matchlen(suffix(pos), nbuf)
    /\ \A p \in 0..(obuflen - 1) : matchlen(suffix(p), nbuf) <= mlen

\* C14's case: the whole query is found although other positions match only
\* its first byte
C14_Witness ==
  /\ Searched
  /\ obuflen >= 3
  /\ mlen = 2
  /\ \E p \in 0..(obuflen - 1) : matchlen(suffix(p), nbuf) = 1
  /\ \E p \in 0..(obuflen - 1) : matchlen(suffix(p), nbuf) = 0

-----------------------------------------------------------------------------
(* The group numbers at the start of a pass *)

\* a pass of order h is about to sweep: its workers are spawned, nothing is
\* swept yet
PassStart == pc = "sweep" /\ i = 0

\* the suffixes at p and q agree on their first k symbols, the end of the
\* buffer being a symbol of its own that only position obuflen holds
agree(p, q, k) ==
  \/ p = q
  \/ /\ p + k <= obuflen
     /\ q + k <= obuflen
     /\ \A x \in 0..(k - 1) : obuf[p + x] = obuf[q + x]

\* the next position after p with the group number of p, or p if there is none
nextInGroup(vv, p) ==
  IF \E q \in (p + 1)..obuflen : vv[q] = vv[p]
  THEN CHOOSE q \in (p + 1)..obuflen :
         vv[q] = vv[p] /\ \A r \in (p + 1)..(q - 1) : vv[r] # vv[p]
  ELSE p

\* equal group numbers in vv mean agreement on the first k symbols: it is
\* enough that each position agrees with the next one of its group
groupsAgree(vv, k) ==
  \A p \in 0..obuflen : agree(p, nextInGroup(vv, p), k)

\* agreement on the first k symbols means equal group numbers in vv
agreeingGrouped(vv, k) ==
  \A p \in 0..obuflen : \A q \in (p + 1)..obuflen :
    vv[p] # vv[q] => ~agree(p, q, k)

\* C15 as stated: at the start of every pass of order h, in sequential and in
\* parallel mode, V[p] = V[q] if and only if the suffixes at p and q agree on
\* their first h bytes.
C15_GroupsAreHPrefixes ==
  PassStart => groupsAgree(V, h) /\ agreeingGrouped(V, h)

\* C15 amended: at the start of every pass of order h, in both modes, suffixes
\* with equal V agree on their first h bytes; in parallel mode suffixes that
\* agree on their first h bytes have equal V as well.  In sequential mode split
\* writes V in place, later keys of the pass read the new numbers, and V may
\* already tell suffixes apart that agree on h bytes.
C15_GroupsRefineHPrefixes ==
  PassStart =>
    /\ groupsAgree(V, h)
    /\ parallel => agreeingGrouped(V, h)

\* C15's case: a second or later pass of a parallel sort starts with groups of
\* several suffixes left
C15_Witness ==
  /\ PassStart
  /\ parallel
  /\ h >= 2
  /\ \E p \in 0..obuflen : nextInGroup(V, p) # p

-----------------------------------------------------------------------------
(* The progress of a pass *)

\* a pass has ended and its order is doubled: h is twice the pass's order
AfterPass == pc = "loop" /\ h >= 2

\* the group numbers a pass leaves: V2 in parallel mode, V in sequential mode
groupNumbers == IF parallel THEN V2 ELSE V

\* each position with the group number it had before the pass and the one
\* it has after it
beforeAndAfter == [p \in 0..obuflen |-> <<Vpass[p], groupNumbers[p]>>]

\* C16: after a pass of order k, in either mode, two suffixes that had equal
\* V when the pass started and still have equal group numbers agree on the
\* bytes at offsets k..2k-1; that is, suffixes of one group whose bytes there
\* differ have been given different group numbers.  It is enough that each
\* position agrees with the next one that shares both of its numbers.
C16_DoublingProgress ==
  AfterPass =>
    /\ DOMAIN Vpass = 0..obuflen
    /\ \A p \in 0..obuflen :
         nextInGroup(beforeAndAfter, p) # p =>
           agree(p + (h \div 2), nextInGroup(beforeAndAfter, p) + (h \div 2),
                 h \div 2)

\* C16's case: a pass of order 2 or more has split a group in two or more
\* and left a group of several suffixes
C16_Witness ==
  /\ AfterPass
  /\ h >= 4
  /\ \E p \in 0..obuflen : \E q \in 0..obuflen :
       Vpass[p] = Vpass[q] /\ groupNumbers[p] # groupNumbers[q]
  /\ \E p \in 0..obuflen : nextInGroup(beforeAndAfter, p) # p

-----------------------------------------------------------------------------
(* The tiling of I by sorted runs and groups *)

\* the suffixes whose group number in vv is g
group(vv, g) == {p \in DOMAIN vv : vv[p] = g}

\* the walk is on a negative entry -k at slot q: the run stays inside I and
\* each of its slots is the group number of exactly one suffix
runTiled(q) ==
  /\ q - I[q] <= obuflen + 1
  /\ \A r \in q..(q - I[q] - 1) : Cardinality(group(V, r)) = 1

\* the walk is on a non-negative entry at slot q: the extent q..V[I[q]] is
\* inside I and its slots hold exactly the suffixes whose V is its last slot
groupTiled(q) ==
  /\ I[q] \in DOMAIN V
  /\ q <= V[I[q]] /\ V[I[q]] <= obuflen
  /\ held(I, q, V[I[q]] + 1 - q) = group(V, V[I[q]])

\* one step of the walk: by k at a negative entry -k, by V[I[i]] + 1 - i at a
\* non-negative one; ok is cleared where the tiling fails
tileStep(s) ==
  IF s.i > obuflen THEN s
  ELSE IF I[s.i] < 0
  THEN (IF runTiled(s.i) THEN [s EXCEPT !.i = s.i - I[s.i]]
        ELSE [s EXCEPT !.ok = FALSE])
  ELSE (IF groupTiled(s.i) THEN [s EXCEPT !.i = V[I[s.i]] + 1]
        ELSE [s EXCEPT !.ok = FALSE])

\* the walk from slot 0, of as many steps as I has slots at most
tileWalk == Iterate(tileStep, [i |-> 0, ok |-> TRUE], obuflen + 1)

\* the walk found only runs and groups and ended at slot obuflen + 1
tiled(w) == w.ok /\ w.i = obuflen + 1

\* C17: after the initialisation and after every completed pass, in both
\* modes, the walk over I from slot 0 meets only starts of sorted runs and of
\* groups and ends exactly at n + 1; each slot of a sorted run is the group
\* number of exactly one suffix, and each extent [i, V[I[i]]] holds exactly the
\* suffixes whose V is its last slot.
C17_Tiling ==
  pc = "loop" => /\ DOMAIN I = 0..obuflen
                 /\ DOMAIN V = 0..obuflen
                 /\ tiled(tileWalk)

\* C17's case: a pass has ended with a merged run of sorted suffixes and a
\* group of several suffixes
C17_Witness ==
  /\ AfterPass
  /\ \E q \in 1..obuflen : I[q] >= 0 /\ groupTiled(q) /\ V[I[q]] > q
  /\ \E q \in 0..obuflen : I[q] < -1 /\ runTiled(q)
  /\ tiled(tileWalk)

-----------------------------------------------------------------------------
(* The marks of the initialisation *)

\* the initialisation is over and no pass has begun
AfterInit == pc = "loop" /\ h = 1

\* the byte values of the buffer, and the suffixes that begin with byte c
bytes == {obuf[p] : p \in DOMAIN obuf}
bucket(c) == {p \in DOMAIN obuf : obuf[p] = c}

\* C18: after the initialisation and before the first pass, I[0] = -1 and
\* for every byte value that occurs exactly once the slot of I holding its
\* suffix is -1, while no slot of a bucket of two or more bytes is negative.
C18_SingletonsMarked ==
  AfterInit =>
    /\ I[0] = -1
    /\ \A c \in bytes :
         IF Cardinality(bucket(c)) = 1
         THEN \A p \in bucket(c) : I[V[p]] = -1
         ELSE \A p \in bucket(c) : I[V[p]] >= 0

-----------------------------------------------------------------------------
(* The writes to V2 in a parallel pass *)

\* the call of split on the range e has returned
splitDone(e) ==
  e.inline \/ [start |-> e.start, length |-> e.length, h |-> e.h] \notin pending

\* the calls of split that have returned and whose range holds the group of
\* the suffix p
writers(p) ==
  {x \in DOMAIN handed : splitDone(handed[x]) /\ Vpass[p] \in slots(handed[x])}

\* the sweep of this pass found slot q in a run of sorted suffixes: the runs
\* that are logged, and the run it is still adding up
sweptSorted(q) ==
  \/ \E x \in DOMAIN marks :
       marks[x].index <= q /\ q < marks[x].index - marks[x].value
  \/ pc \in {"sweep", "join"} /\ i - n <= q /\ q < i

\* C19: in a parallel pass each slot of V2 is written at most once, and
\* only by the call of split (of a worker or inline) whose range holds the
\* group of that suffix; the slots of V2 of the suffixes that the pass found
\* sorted are not written at all.
C19_V2WrittenOnce ==
  (parallel /\ InPass) =>
    /\ DOMAIN written = 0..obuflen
    /\ \A p \in 0..obuflen :
         /\ written[p] <= 1
         /\ written[p] = Cardinality(writers(p))
         /\ sweptSorted(Vpass[p]) => written[p] = 0
         /\ pc = "join" =>
              \/ sweptSorted(Vpass[p])
              \/ \E x \in DOMAIN handed : Vpass[p] \in slots(handed[x])

\* C19's case: at the end of a sweep a worker's call has written the slots of
\* its group, another call of the pass has written others, and the slot of a
\* sorted suffix was left alone
C19_Witness ==
  /\ parallel /\ pc = "join"
  /\ \E x, y \in DOMAIN handed :
       /\ x # y
       /\ ~handed[x].inline /\ splitDone(handed[x]) /\ splitDone(handed[y])
       /\ \E p, q \in 0..obuflen :
            /\ Vpass[p] \in slots(handed[x]) /\ written[p] = 1
            /\ Vpass[q] \in slots(handed[y]) /\ written[q] = 1
  /\ \E p \in 0..obuflen : sweptSorted(Vpass[p]) /\ written[p] = 0

-----------------------------------------------------------------------------
(* Index safety of split and of the sweep *)

\* every slot of st..st+ln-1 is a slot of I that holds a suffix whose key of
\* order hh, V[I[q] + hh], is inside V
readable(st, ln, hh) ==
  \A q \in st..(st + ln - 1) :
    /\ q \in 0..obuflen
    /\ I[q] >= 0
    /\ I[q] + hh <= obuflen

\* the sweep is on slot i of I
Sweeping == pc = "sweep" /\ i < obuflen + 1

\* no call of split and no step of the sweep has panicked: the one panic of
\* the model is that of make(chan sortTask, taskBufferSize), before any pass
noIndexPanic ==
  pc = "panic" => (taskBufferSize < 0 /\ h = 1 /\ handed = <<>>)

\* C20: in every pass of either mode split reads no negative entry of I in
\* its range and no key index I[i] + h beyond n, so no call of split, of a
\* worker or inline, indexes I, V or V2 out of bounds; the sweep reads only
\* slots in 0..n and computes a group length V[I[i]] + 1 - i of 1 at least.
C20_IndexSafety ==
  /\ ~strayed
  /\ noIndexPanic
  /\ \A e \in pending : readable(e.start, e.length, e.h)
  /\ pc = "send" => (n >= 1 /\ readable(i, n, h))
  /\ Sweeping =>
       /\ i \in 0..obuflen
       /\ I[i] < 0 => i - I[i] <= obuflen + 1
       /\ I[i] >= 0 =>
            /\ I[i] <= obuflen
            /\ V[I[i]] + 1 - i >= 1
            /\ readable(i, V[I[i]] + 1 - i, h)
  /\ (InPass /\ n > 0 /\ pc # "send") => i - n \in 0..obuflen

\* C20's case: a buffer of one repeated byte in a pass of order 2 at least,
\* the sweep on a group one of whose keys is V[n], the last slot of V
C20_Witness ==
  /\ Sweeping /\ h >= 2
  /\ obuflen >= 2 /\ \A p \in DOMAIN obuf : obuf[p] = obuf[0]
  /\ I[i] >= 0 /\ I[i] <= obuflen
  /\ readable(i, V[I[i]] + 1 - i, h)
  /\ \E q \in i..V[I[i]] : I[q] + h = obuflen

-----------------------------------------------------------------------------
(* Groups are only refined *)

\* the first slot of the group that p belonged to when the pass began
extentStart(p) == Vpass[p] + 1 - Cardinality(group(Vpass, Vpass[p]))

\* C21: across every pass, in both modes, no V[p] increases, V[p] stays in
\* the extent of the group that p belonged to before the pass, and suffixes
\* in different groups keep their order: V[p] < V[q] before the pass implies
\* V[p] < V[q] after it.
C21_GroupsOnlyRefine ==
  AfterPass =>
    /\ DOMAIN Vpass = DOMAIN V
    /\ \A p \in DOMAIN V :
         /\ V[p] <= Vpass[p]
         /\ extentStart(p) <= V[p]
         /\ \A q \in DOMAIN V : Vpass[p] < Vpass[q] => V[p] < V[q]

\* C21's case: a pass has split a group, lowering the group number of one of
\* its suffixes below that of another, next to a suffix of a later group
C21_Witness ==
  /\ AfterPass
  /\ \E p, q, r \in DOMAIN V :
       /\ Vpass[p] = Vpass[q] /\ V[p] < V[q] /\ V[p] < Vpass[p]
       /\ extentStart(p) <= V[p]
       /\ Vpass[q] < Vpass[r] /\ V[q] < V[r]

-----------------------------------------------------------------------------
(* The frame of split *)

\* a call of split on the range e, entered with the index array arr and the
\* group numbers vv as its V2, has returned in this step with vvNew as V2:
\* outside the range I is as before, and outside the suffixes the range held
\* V2 is as before and was not assigned
splitFrame(arr, vv, vvNew, e) ==
  /\ DOMAIN I' = DOMAIN arr
  /\ DOMAIN vvNew = DOMAIN vv
  /\ \A q \in DOMAIN arr : q \notin slots(e) => I'[q] = arr[q]
  /\ \A p \in DOMAIN vv :
       p \notin held(arr, e.start, e.length) =>
         (vvNew[p] = vv[p] /\ written'[p] = written[p])

\* the sweep of this step splits a group inline: a range is handed over
inlineStep ==
  /\ pc = "sweep" /\ pc' \in {"sweep", "panic"}
  /\ Len(handed') = Len(handed) + 1
  /\ handed'[Len(handed')].inline

\* the worker that holds task t returns from split in this step
workerStep(t) == busy' = busy (-) SetToBag({t}) /\ idle' = idle + 1

\* C22: a call split(I, V, V2, start, length, h) writes I only in the slots
\* start..start+length-1 and V2 only at the suffixes that range held on
\* entry, every other slot of I and V2 being the same on return; and in
\* parallel mode no step of the driver changes a slot of I in a range that is
\* queued for or held by a worker.
C22_SplitFrame ==
  [][/\ inlineStep =>
          IF parallel
          THEN splitFrame(I, V2, V2', handed'[Len(handed')]) /\ V' = V
          ELSE splitFrame(logMark(D, FALSE).I, V, V', handed'[Len(handed')])
     /\ \A t \in BagToSet(busy) :
          workerStep(t) => (splitFrame(I, V2, V2', t) /\ V' = V)
     /\ (parallel /\ busy' = busy) =>
          \A t \in pending : \A q \in slots(t) : I'[q] = I[q]]_vars

\* C22's case: the driver has split a group itself while a range handed over
\* before is still with the workers, untouched, and the suffixes of the
\* driver's range have their new group numbers
C22_Witness ==
  /\ parallel /\ InPass
  /\ \E x, y \in DOMAIN handed :
       /\ x < y
       /\ ~handed[x].inline /\ ~splitDone(handed[x])
       /\ readable(handed[x].start, handed[x].length, h)
       /\ \A q \in slots(handed[x]) : written[I[q]] = 0
       /\ handed[y].inline /\ handed[y].length >= 2
       /\ \E p \in DOMAIN written :
            Vpass[p] \in slots(handed[y]) /\ written[p] = 1 /\ V2[p] < V[p]

-----------------------------------------------------------------------------
(* The protocol of the task queue *)

\* the task of the range e, as it is sent
taskOf(e) == [start |-> e.start, length |-> e.length, h |-> e.h]

\* how many times the task t is in the channel's buffer or with a worker
copies(t) == Cardinality({x \in DOMAIN tasks : tasks[x] = t}) + CopiesIn(t, busy)

\* the workers of the pass: waiting for a task, splitting, or past their loop
workers == idle + BagCardinality(busy) + sending + joined

\* the suffixes of the range e were each assigned a group number k times
splitTimes(e, k) ==
  \A p \in DOMAIN written : Vpass[p] \in slots(e) => written[p] = k

\* C23: in a parallel pass the queue never holds more than 4 x numWorkers
\* tasks; a group is queued iff it is longer than 128 and is otherwise split by
\* the driver; a queued task is with exactly one worker or in the buffer until
\* it has been split, exactly once and with the h of its pass, also when it was
\* still buffered at the close; nothing is queued after the close; and each
\* worker signals done once per pass.
C23_QueueProtocol ==
  (parallel /\ numWorkers >= 0) =>
    /\ InPass =>
         /\ Len(tasks) <= TaskBufferFactor * numWorkers
         /\ workers = numWorkers
         /\ \A x \in DOMAIN handed :
              /\ handed[x].inline <=> handed[x].length <= ParallelThreshold
              /\ handed[x].h = h
              /\ ~handed[x].inline =>
                   /\ copies(taskOf(handed[x])) <= 1
                   /\ splitTimes(handed[x], 1 - copies(taskOf(handed[x])))
         /\ \A t \in pending : \E x \in DOMAIN handed : t = taskOf(handed[x])
         /\ pc = "send" => n > ParallelThreshold
    /\ closed => pc \notin {"sweep", "send"}
    /\ (closed /\ pc # "join") =>
         /\ pending = {}
         /\ sending = 0 /\ idle = 0
         /\ joined = numWorkers

\* C23's case: the buffer of the channel is full of tasks, a worker is
\* waiting, and the driver is in the send of one more group
C23_Witness ==
  /\ parallel /\ numWorkers >= 1
  /\ pc = "send" /\ n > ParallelThreshold
  /\ Len(tasks) = TaskBufferFactor * numWorkers
  /\ idle + BagCardinality(busy) = numWorkers
  /\ \A x \in DOMAIN handed : ~handed[x].inline => copies(taskOf(handed[x])) = 1

-----------------------------------------------------------------------------
(* The compressor registry and CompressWire (package pwr).  A Compressor   *)
(* is modelled by its name and by the quality below which its Apply        *)
(* fails; a writer by who made it, the writer it writes to and the         *)
(* quality; a write context by the writer it holds.                        *)

\* the Compressor values RegisterCompressor is called with, nil included
Compressors ==
  [name : {"c1", "c2"}, failsBelow : FailsBelow] \cup {NilCompressor}

\* the writers of the contexts CompressWire is called with
Writers == [by : {"none"}, inner : {"w1", "w2"}, quality : {0}]
NilWriter == [by |-> "nil", inner |-> "nil", quality |-> 0]

\* `wire.NewWriteContext(writer)` and `ctx.Writer()`
NewWriteContext(w) == [nil |-> FALSE, writer |-> w]
Writer(ctx) == ctx.writer
NilContext == [nil |-> TRUE, writer |-> NilWriter]
Contexts == {NewWriteContext(w) : w \in Writers}

\* the *CompressionSettings CompressWire is called with, nil included
NilSettings == [nil |-> TRUE, Algorithm |-> CompressionAlgorithm_NONE, Quality |-> 0]
Settings ==
  [nil : {FALSE}, Algorithm : Algorithms, Quality : Qualities]
    \cup {NilSettings}

\* line 15: Apply(writer, quality) of the compressor c
Apply(c, w, quality) ==
  IF quality < c.failsBelow
  THEN [writer |-> NilWriter, err |-> "apply failed"]
  ELSE [writer |-> [by |-> c.name, inner |-> w.inner, quality |-> quality],
        err |-> "nil"]

\* lines 68-73: the compressor is applied to the context's writer
wrap(r) ==
  IF r.err # "nil" THEN [ctx |-> NilContext, err |-> r.err]
  ELSE [ctx |-> NewWriteContext(r.writer), err |-> "nil"]

\* lines 54-74: what CompressWire(ctx, compression) returns with registry m
compressWire(m, ctx, compression) ==
  IF compression.nil
  THEN [ctx |-> NilContext, err |-> "no compression specified"]
  ELSE IF compression.Algorithm = CompressionAlgorithm_NONE
  THEN [ctx |-> ctx, err |-> "nil"]
  ELSE IF m[compression.Algorithm] = NilCompressor
  THEN [ctx |-> NilContext, err |-> "no compressor registered"]
  ELSE wrap(Apply(m[compression.Algorithm], Writer(ctx), compression.Quality))

\* a registration that keeps the compressor already in place
registerFirst(m, a, c) == IF m[a] # NilCompressor THEN m ELSE [m EXCEPT ![a] = c]

\* line 36: compressors[a] = c
register(m, a, c) == [m EXCEPT ![a] = c]

CompressInit ==
  /\ pc = "pwr"
  /\ obuf = EmptySlice /\ nbuf = EmptySlice
  /\ concurrency = 0
  /\ sortAtRest
  /\ counterAtRest
  /\ compressAtRest

\* lines 32-37
RegisterCompressor ==
  /\ pc = "pwr"
  /\ Len(registered) < MaxRegistrations
  /\ \E a \in Algorithms, c \in Compressors :
       /\ logged' = IF compressors[a] # NilCompressor THEN logged + 1 ELSE logged
       /\ compressors' = register(compressors, a, c)
       /\ registered' = Append(registered, [a |-> a, c |-> c])
  /\ UNCHANGED <<sortVars, counterVars, wired>>

\* lines 54-74
CompressWire ==
  /\ pc = "pwr"
  /\ \E ctx \in Contexts, compression \in Settings :
       wired' = [called |-> TRUE, ctx |-> ctx, compression |-> compression,
                 ret |-> compressWire(compressors, ctx, compression),
                 at |-> Len(registered)]
  /\ UNCHANGED <<sortVars, counterVars, compressors, logged, registered>>

CompressNext == RegisterCompressor \/ CompressWire

SpecCompress == CompressInit /\ [][CompressNext]_vars

\* the registrations for the algorithm a among the first k calls
registrations(a, k) == {x \in 1..k : registered[x].a = a}

\* the compressor of the last of the registrations X, nil when there is none
latest(X) ==
  IF X = {} THEN NilCompressor
  ELSE registered[CHOOSE x \in X : \A y \in X : y <= x].c

\* the compressor most recently registered for the algorithm of the call w
called(w) == latest(registrations(w.compression.Algorithm, w.at))

\* the call w is one the claim says must fail
mustFail(w) ==
  \/ w.compression.nil
  \/ /\ w.compression.Algorithm # CompressionAlgorithm_NONE
     /\ \/ called(w) = NilCompressor
        \/ Apply(called(w), Writer(w.ctx), w.compression.Quality).err # "nil"

\* C24: after any sequence of RegisterCompressor calls, CompressWire returns
\* an error and a nil context exactly when the settings are nil, or the
\* algorithm is not NONE and no compressor is registered for it or the
\* registered compressor's Apply fails; with NONE it returns the context it
\* was given, whatever the registry holds; otherwise it returns a context
\* on the writer that the compressor most recently registered for the
\* algorithm produced.
C24_CompressWire ==
  (pc = "pwr" /\ wired.called) =>
    /\ (wired.ret.err # "nil") <=> mustFail(wired)
    /\ wired.ret.ctx.nil <=> mustFail(wired)
    /\ (~wired.compression.nil /\
        wired.compression.Algorithm = CompressionAlgorithm_NONE) =>
         wired.ret.ctx = wired.ctx
    /\ (~mustFail(wired) /\
        wired.compression.Algorithm # CompressionAlgorithm_NONE) =>
         wired.ret.ctx =
           NewWriteContext(Apply(called(wired), Writer(wired.ctx),
                                 wired.compression.Quality).writer)

\* C24's case: two compressors were registered for one algorithm, and a
\* call for that algorithm has returned a context on the writer of the
\* second one
C24_Witness ==
  /\ pc = "pwr" /\ wired.called /\ wired.at = 2
  /\ registered[1].a = wired.compression.Algorithm
  /\ registered[2].a = wired.compression.Algorithm
  /\ registered[1].c # NilCompressor /\ registered[2].c # NilCompressor
  /\ registered[1].c.name # registered[2].c.name
  /\ logged = 1
  /\ wired.ret.err = "nil"
  /\ Writer(wired.ret.ctx).by = registered[2].c.name

=============================================================================
